---------------------------- MODULE Spec2Model ----------------------------
(* Softmax1x1 (tensorflow/lite/delegates/gpu/cl/kernels/softmax1x1.cc):    *)
(* the host side (Compile, AddToQueue: positional argument binding and     *)
(* dispatch) and the generated OpenCL kernel (32 lanes per workgroup, two  *)
(* barriers, two passes over the channel slots).                           *)
(*                                                                         *)
(* Numbers.  A float is modelled exactly: an input x is a small natural    *)
(* number, exp(x) is the exact power Exp(x) = 2^x (positive, strictly      *)
(* increasing, Exp(0) = 1), and every value derived from it is a rational  *)
(* <<n, d>>.  <<0, 0>> is a location that holds nothing written by the     *)
(* program (uninitialised __local memory, an unwritten destination).      *)
(*                                                                         *)
(* Scheduling.  The 32 lanes of a workgroup are grouped in subgroups of    *)
(* consecutive lanes that advance together (the device's subgroup width);  *)
(* subgroups of one workgroup and of different workgroups interleave       *)
(* freely.  A lane's                                                       *)
(* code between two barriers touches only its private variables, its own   *)
(* shared slot and its own destination slots, so it is one step.           *)
(*                                                                         *)
(* Host objects.  The kernel cache Compile goes through holds the programs *)
(* compiled so far by key.  A second Softmax1x1 object is the other side   *)
(* of a move construction or a move assignment; a moved-from object has no *)
(* kernel and no tensors, and a call on it faults.                         *)
EXTENDS Integers, Sequences, FiniteSets, TLC

(* ------------------------------ bounds -------------------------------- *)
MaxSubgroups == 4
MaxBatch == 2
MaxChannels == 6
MaxLinked == 1
MaxCalls == 2
MaxX == 2

(* ------------------------- program constants -------------------------- *)
\* the work group size {32, 1, 1} and the stride "offset += 32"
WorkGroupSize == 32
\* __local float4 tmp[8]
TmpVectors == 8

Lanes == 0 .. WorkGroupSize - 1

(* ------------------------------ numbers ------------------------------- *)
RECURSIVE Exp(_)
Exp(x) == IF x = 0 THEN 1 ELSE 2 * Exp(x - 1)

\* The one element of a singleton.  Operands are bound through singletons
\* below, so that each is evaluated once.
The(S) == CHOOSE v \in S : TRUE

Undef == <<0, 0>>
Rat(n) == <<n, 1>>
RatAdd(a, b) ==
    The({<<x[1] * y[2] + y[1] * x[2], x[2] * y[2]>> : x \in {a}, y \in {b}})
RatMul(a, b) == The({<<x[1] * y[1], x[2] * y[2]>> : x \in {a}, y \in {b}})
RatEq(a, b) == /\ (a[2] = 0) = (b[2] = 0)
               /\ a[1] * b[2] = b[1] * a[2]
\* 1.0f / sum (nothing defined comes of an undefined or a zero sum)
Recip(a) ==
    The({IF x[1] = 0 \/ x[2] = 0 THEN Undef ELSE <<x[2], x[1]>> : x \in {a}})

Ones == <<1, 1, 1, 1>>
\* dot(m, v) of a 0/1 vector m and a vector v of rationals
Dot(m, v) ==
    The({RatAdd(RatAdd(RatMul(Rat(a[1]), x[1]), RatMul(Rat(a[2]), x[2])),
                RatAdd(RatMul(Rat(a[3]), x[3]), RatMul(Rat(a[4]), x[4])))
         : a \in {m}, x \in {v}})
\* exp(src), lane by lane
ExpV(v) == The({[i \in 1 .. 4 |-> Rat(Exp(x[i]))] : x \in {v}})
ScaleV(v, s) == The({[i \in 1 .. 4 |-> RatMul(x[i], y)] : x \in {v}, y \in {s}})
UnwrittenV == <<Undef, Undef, Undef, Undef>>

(* ------------------------------ tensors ------------------------------- *)
IntegralDivideRoundUp(n, d) == (n + d - 1) \div d

\* Tensor::Channels(), Tensor::Batch(), Tensor::Depth(), GetSizeWithDepth()
Channels(t) == t.c
Batch(t) == t.b
Depth(t) == IntegralDivideRoundUp(t.c, 4)
GetSizeWithDepth(t) == <<1, 1, t.c, Depth(t)>>

\* the value stored for batch element b at channel position c (positions at
\* or beyond the channel count are the padding of the last slot)
InputValue(seed, b, c) == (c * (seed + 1) + b + seed) % (MaxX + 1)
SrcContents(t, seed) ==
    [b \in 0 .. t.b - 1 |->
        [z \in 0 .. Depth(t) - 1 |->
            [i \in 1 .. 4 |-> InputValue(seed, b, 4 * z + i - 1)]]]
DstContents(t) ==
    [b \in 0 .. t.b - 1 |-> [z \in 0 .. Depth(t) - 1 |-> UnwrittenV]]

(* ------------------------- linked operations -------------------------- *)
\* An ElementwiseOperation fused into the kernel: what its post-process code
\* does to a value, and the runtime arguments it declares and binds.
Scale2 == [op |-> "mul", k |-> 2, nargs |-> 1]
Add1 == [op |-> "add", k |-> 1, nargs |-> 2]
\* one whose code uses the coordinate z of the LinkingContext and declares
\* no argument
AddZ == [op |-> "addz", k |-> 0, nargs |-> 0]

\* the chains of up to n operations that alternate the two kinds
Alternating(first, n) ==
    [i \in 1 .. n |-> IF (i % 2 = 1) = first THEN Scale2 ELSE Add1]
Chains(n) == {Alternating(f, m) : f \in BOOLEAN, m \in 0 .. n}
\* every chain of up to n operations of the three kinds
AllChains(n) == UNION {[1 .. m -> {Scale2, Add1, AddZ}] : m \in 0 .. n}

Name(s) == <<s, 0, 0>>
LinkedName(i, j) == <<"linked", i, j>>

\* the arguments of linked operation i, in its own declaration order
LinkedArgs(linked, i) ==
    [j \in 1 .. linked[i].nargs |->
        [name |-> LinkedName(i, j), type |-> "float", val |-> linked[i].k]]

RECURSIVE LinkedArgsFrom(_, _)
LinkedArgsFrom(linked, i) ==
    IF i > Len(linked) THEN <<>>
    ELSE LinkedArgs(linked, i) \o LinkedArgsFrom(linked, i + 1)

\* GetArgsDeclaration(linked_operations): the parameters the chain declares
GetArgsDeclaration(linked) ==
    [i \in 1 .. Len(LinkedArgsFrom(linked, 1)) |->
        [name |-> LinkedArgsFrom(linked, 1)[i].name,
         type |-> LinkedArgsFrom(linked, 1)[i].type]]

\* the values BindArgs(&kernel_, linked_operations_) binds, in order
BindArgsValues(linked) == LinkedArgsFrom(linked, 1)

\* one linked operation's post-process code applied to the vector res; k is
\* the value of the first kernel parameter the operation declared, z the
\* slot coordinate the LinkingContext names
ApplyLinked(e, k, res, z) ==
    The({IF e.op = "mul" THEN [i \in 1 .. 4 |-> RatMul(x[i], Rat(k))]
         ELSE IF e.op = "addz" THEN [i \in 1 .. 4 |-> RatAdd(x[i], Rat(z))]
         ELSE [i \in 1 .. 4 |-> RatAdd(x[i], Rat(k))] : x \in {res}})

\* PostProcess(linked_operations, context): the chain, first to last
RECURSIVE PostProcessFrom(_, _, _, _, _)
PostProcessFrom(linked, ks, i, res, z) ==
    IF i > Len(linked) THEN res
    ELSE PostProcessFrom(linked, ks, i + 1,
                         ApplyLinked(linked[i], ks[i], res, z), z)
PostProcess(linked, ks, res, z) == PostProcessFrom(linked, ks, 1, res, z)

(* ------------------------------- state -------------------------------- *)
VARIABLES
    device,             \* the environment: [subgroups] a workgroup runs as on
                        \* the CL device, [max_calls] the caller makes
    definition_,        \* OperationDef: [batch_support]
    linked_operations_, \* the fused chain
    src_, dst_,         \* src_[0], dst_[0]: [c, b, buf]
    mem,                \* buffer id -> contents
    kernel_,            \* CLKernel: [compiled, binding_counter, args]
    last,               \* the last host call and the Status it returned
    calls,              \* AddToQueue calls made so far
    grid,               \* the dispatch in the queue: [active, global, local, p]
    pc,                 \* workgroup -> subgroup -> position in the kernel
    tmp,                \* workgroup -> the 32 scalars of __local float4 tmp[8]
    sum,                \* workgroup -> lane -> the private variable sum
    mask_temp,          \* workgroup -> the [z, sel, val] of every mask_temp of pass 1
    cache,              \* creation_context.cache: [entries, invoked]
    other               \* a second Softmax1x1 object, the other side of a move

vars == <<device, definition_, linked_operations_, src_, dst_, mem, kernel_, last,
          calls, grid, pc, tmp, sum, mask_temp, cache, other>>

host_vars == <<kernel_, last, calls, cache>>
device_vars == <<grid, pc, tmp, sum, mask_temp>>
fixed_vars == <<device, definition_, linked_operations_, src_, dst_, other>>

(* --------------------- the kernel's parameter list -------------------- *)
\* GetSoftmaxKernelCode: the parameters of main_function, in order
KernelParamsBatchFirst(def, linked) ==
    <<[name |-> Name("src_data"), type |-> "mem"]>>
    \o GetArgsDeclaration(linked)
    \o <<[name |-> Name("dst_data"), type |-> "mem"]>>
    \o (IF def.batch_support
        THEN <<[name |-> Name("BATCH_SIZE"), type |-> "int"]>> ELSE <<>>)
    \o <<[name |-> Name("tensor_size"), type |-> "int4"],
         [name |-> Name("size"), type |-> "int2"],
         [name |-> Name("mask"), type |-> "float4"]>>

KernelParams(def, linked) ==
    <<[name |-> Name("src_data"), type |-> "mem"]>>
    \o GetArgsDeclaration(linked)
    \o <<[name |-> Name("dst_data"), type |-> "mem"],
         [name |-> Name("tensor_size"), type |-> "int4"],
         [name |-> Name("size"), type |-> "int2"]>>
    \o (IF def.batch_support
        THEN <<[name |-> Name("BATCH_SIZE"), type |-> "int"]>> ELSE <<>>)
    \o <<[name |-> Name("mask"), type |-> "float4"]>>

(* ------------------------- the generated source ---------------------- *)
\* GetSoftmaxKernelCode(op_def, linked_operations): the text, as what it
\* varies with: the parameter list, whether the batch check and the batch
\* coordinate are emitted, and the code each linked operation contributes
GetSoftmaxKernelCodeStamped(op_def, linked) ==
    [params |-> KernelParams(op_def, linked),
     batch |-> op_def.batch_support,
     post |-> [i \in 1 .. Len(linked) |-> linked[i].op],
     stamp |-> kernel_.compiled]
GetSoftmaxKernelCode(op_def, linked) ==
    [params |-> KernelParams(op_def, linked),
     batch |-> op_def.batch_support,
     post |-> [i \in 1 .. Len(linked) |-> linked[i].op]]

\* what Compile looks the kernel up by
CompileKey(op_def, linked) ==
    <<GetSoftmaxKernelCode(op_def, linked), "main_function">>

\* the cache: the keys it holds and the program stored under a key
CachedKeys(c) == {e.key : e \in c.entries}
HandleOf(c, key) == (CHOOSE e \in c.entries : e.key = key).handle

(* ------------------------- moved-from objects ------------------------- *)
\* src_ / dst_ after the vector was moved away: no tensor
NoTensor == [c |-> 0, b |-> 0, buf |-> "none"]
\* a CLKernel that holds no kernel
NullKernel(counter) ==
    [compiled |-> FALSE, handle |-> 0, binding_counter |-> counter, args |-> <<>>]
\* the second object before it is constructed
NoObject == [exists |-> FALSE]

(* --------------------------- the mask vector -------------------------- *)
\* GetMaskForLastPlane(channels): lanes 0 .. r-1 are 1.0, r = channels mod 4,
\* and all four when the channel count divides evenly
GetMaskForLastPlane(channels) ==
    LET r == IF channels % 4 = 0 THEN 4 ELSE channels % 4
    IN  [i \in 1 .. 4 |-> IF i - 1 < r THEN 1 ELSE 0]

(* -------------------------- the CLKernel ------------------------------ *)
UnsetArg == [name |-> Name("unset"), type |-> "unset", val |-> 0]

\* CLKernel::ResetBindingCounter()
ResetBindingCounter(k) == [k EXCEPT !.binding_counter = 0]

\* The first n values of seq bound by n SetBytesAuto / SetMemoryAuto calls
\* that succeed: each goes to position binding_counter_, which then advances.
SetBytesAuto(k, seq, n) ==
    LET c == k.binding_counter
        len == IF c + n > Len(k.args) THEN c + n ELSE Len(k.args)
    IN  [k EXCEPT !.args = [i \in 1 .. len |->
                              IF i > c /\ i <= c + n THEN seq[i - c]
                              ELSE IF i <= Len(k.args) THEN k.args[i]
                              ELSE UnsetArg],
                  !.binding_counter = c + n]

(* ----------------------------- AddToQueue ----------------------------- *)
\* the kernel as AddToQueue's first statement leaves it
CursorLeftAsIs(k) == k
CursorAtStart(k) == ResetBindingCounter(k)

SizeArgChannels(t) ==
    [name |-> Name("size"), type |-> "int2",
     val |-> <<Channels(t), IntegralDivideRoundUp(Depth(t), 32)>>]
\* int2(depth, IntegralDivideRoundUp(depth, 32))
SizeArg(t) ==
    [name |-> Name("size"), type |-> "int2",
     val |-> <<Depth(t), IntegralDivideRoundUp(Depth(t), 32)>>]

MaskArgOfDepth(t) ==
    [name |-> Name("mask"), type |-> "float4",
     val |-> GetMaskForLastPlane(Depth(t))]
MaskArg(t) ==
    [name |-> Name("mask"), type |-> "float4",
     val |-> GetMaskForLastPlane(Channels(t))]

\* everything AddToQueue binds when no step fails, in the order it binds it
BindSequence(def, linked, s, d) ==
    <<[name |-> Name("src_data"), type |-> "mem", val |-> s.buf]>>
    \o BindArgsValues(linked)
    \o <<[name |-> Name("dst_data"), type |-> "mem", val |-> d.buf],
         [name |-> Name("tensor_size"), type |-> "int4",
          val |-> GetSizeWithDepth(s)],
         SizeArg(s)>>
    \o (IF def.batch_support
        THEN <<[name |-> Name("BATCH_SIZE"), type |-> "int", val |-> Batch(d)]>>
        ELSE <<>>)
    \o <<MaskArg(s)>>

\* the sizes handed to DispatchImplicit
GlobalSize(d) == <<32, Batch(d), 1>>
LocalSize == <<32, 1, 1>>

\* workgroups of a dispatch, numbered by their group id along axis 1
WorkGroups(g) == 0 .. (g.global[1] \div g.local[1]) * (g.global[2] \div g.local[2])
                      * (g.global[3] \div g.local[3]) - 1

\* The values of the parameters of main_function in a dispatch: arguments
\* are positional, so a parameter has whatever was bound at the position it
\* is declared at.
ArgOf(ps, args, name) ==
    LET at == {i \in 1 .. Len(ps) : ps[i].name = name /\ i <= Len(args)}
    IN  IF at = {} THEN 0 ELSE args[CHOOSE i \in at : TRUE].val
LaunchParams(def, linked, args) ==
    LET ps == KernelParams(def, linked)
    IN  [src_data |-> ArgOf(ps, args, Name("src_data")),
         dst_data |-> ArgOf(ps, args, Name("dst_data")),
         tensor_size |-> ArgOf(ps, args, Name("tensor_size")),
         size |-> ArgOf(ps, args, Name("size")),
         BATCH_SIZE |-> ArgOf(ps, args, Name("BATCH_SIZE")),
         mask |-> ArgOf(ps, args, Name("mask")),
         linked |-> [i \in 1 .. Len(linked) |-> ArgOf(ps, args, LinkedName(i, 1))]]

\* RETURN_IF_ERROR: how many of the n arguments are bound when step fail is
\* the one that returns an error (none does when fail is 0 or n + 1)
BoundDespiteError(fail, n) == n
BoundBeforeError(fail, n) == IF fail \in 1 .. n THEN fail - 1 ELSE n

Finished(p) == p \in {"done", "exited"}
Running == grid.active /\ \E w \in DOMAIN pc : \E t \in Lanes : ~Finished(pc[w][t])

\* A call on a moved-from operator reads src_[0] or op_def.src_tensors[0] of
\* an emptied vector: the process faults, and nothing runs after that.
MovedFrom == src_ = NoTensor
Faulted == last.op = "fault"
Fault ==
    /\ last' = [op |-> "fault", error |-> 0]
    /\ UNCHANGED <<kernel_, calls, cache, mem>>
    /\ UNCHANGED device_vars

\* GetOrCreateCLKernel(code, "main_function", .., &kernel_): a hit hands out
\* the program compiled before and the compiler does not run (ok is TRUE); a
\* miss runs the compiler, which succeeds or fails, and a program that
\* compiled is inserted under the key
GetOrCreateCLKernel(key, ok) ==
    IF key \in CachedKeys(cache)
    THEN /\ ok
         /\ cache' = [cache EXCEPT !.invoked = FALSE]
         /\ kernel_' = [compiled |-> TRUE, handle |-> HandleOf(cache, key),
                        binding_counter |-> kernel_.binding_counter,
                        args |-> <<>>]
    ELSE /\ cache' = [entries |-> IF ok THEN cache.entries \cup
                                     {[key |-> key,
                                       handle |-> Cardinality(cache.entries) + 1]}
                                   ELSE cache.entries,
                      invoked |-> TRUE]
         /\ kernel_' = IF ok THEN [compiled |-> TRUE,
                                   handle |-> Cardinality(cache.entries) + 1,
                                   binding_counter |-> kernel_.binding_counter,
                                   args |-> <<>>]
                       ELSE kernel_

Compile ==
    /\ ~Running
    /\ ~Faulted
    /\ IF MovedFrom THEN Fault
       ELSE /\ \E ok \in BOOLEAN :
                 /\ GetOrCreateCLKernel(CompileKey(definition_,
                                                   linked_operations_), ok)
                 /\ last' = [op |-> "Compile", error |-> IF ok THEN 0 ELSE 1]
            /\ UNCHANGED <<calls, mem>>
            /\ UNCHANGED device_vars
    /\ UNCHANGED fixed_vars

\* fail = 0: every step succeeds; fail = k in 1 .. n: the k-th bind returns an
\* error; fail = n + 1: the binds succeed and DispatchImplicit returns an error
AddToQueue ==
    /\ ~Running
    /\ ~Faulted
    /\ calls < device.max_calls
    /\ IF MovedFrom THEN Fault ELSE
        \E seq \in {BindSequence(definition_, linked_operations_, src_, dst_)} :
        \E n \in {Len(seq)} :
        \E fail \in 0 .. n + 1 :
             LET nbound == BoundBeforeError(fail, n)
                 k == SetBytesAuto(CursorAtStart(kernel_), seq, nbound)
                 g == [active |-> TRUE, global |-> GlobalSize(dst_),
                       local |-> LocalSize,
                       p |-> LaunchParams(definition_, linked_operations_,
                                          kernel_'.args)]
             IN  /\ (~kernel_.compiled) => fail = 1
                 /\ kernel_' = k
                 /\ last' = [op |-> "AddToQueue", error |-> fail]
                 /\ calls' = calls + 1
                 /\ IF fail = 0
                    THEN /\ grid' = g
                         /\ pc' = [w \in WorkGroups(g) |-> [t \in Lanes |-> "entry"]]
                         /\ tmp' = [w \in WorkGroups(g) |-> [t \in Lanes |-> Undef]]
                         /\ sum' = [w \in WorkGroups(g) |-> [t \in Lanes |-> Undef]]
                         /\ mask_temp' = [w \in WorkGroups(g) |-> {}]
                    ELSE UNCHANGED device_vars
                 /\ UNCHANGED <<mem, cache>>
    /\ UNCHANGED fixed_vars

(* ------------------------------- moves -------------------------------- *)
\* this operator as an object: the CLKernel and the GPUOperation state
ThisObject ==
    [exists |-> TRUE, definition_ |-> definition_,
     linked_operations_ |-> linked_operations_,
     src_ |-> src_, dst_ |-> dst_, kernel_ |-> kernel_]
ThisBecomes(o) ==
    /\ definition_' = o.definition_
    /\ linked_operations_' = o.linked_operations_
    /\ src_' = o.src_
    /\ dst_' = o.dst_
    /\ kernel_' = o.kernel_

\* what std::move leaves behind in the object moved from: a CLKernel that
\* holds no kernel, emptied vectors, the flags as they were
MovedFromObject(o) ==
    [exists |-> TRUE, definition_ |-> o.definition_,
     linked_operations_ |-> <<>>,
     src_ |-> NoTensor, dst_ |-> NoTensor,
     kernel_ |-> NullKernel(o.kernel_.binding_counter)]

\* Softmax1x1(Softmax1x1&& kernel): GPUOperation(std::move(kernel)),
\* kernel_(std::move(kernel.kernel_))
MoveConstructed(from) ==
    [exists |-> TRUE, definition_ |-> from.definition_,
     linked_operations_ |-> from.linked_operations_,
     src_ |-> from.src_, dst_ |-> from.dst_, kernel_ |-> from.kernel_]

\* operator=(Softmax1x1&& kernel), this != &kernel: kernel_ =
\* std::move(kernel.kernel_); GPUOperation::operator=(std::move(kernel))
MoveAssignedBaseOnly(to, from) ==
    [to EXCEPT !.definition_ = from.definition_,
               !.linked_operations_ = from.linked_operations_,
               !.src_ = from.src_, !.dst_ = from.dst_]
MoveAssigned(to, from) ==
    [to EXCEPT !.kernel_ = from.kernel_,
               !.definition_ = from.definition_,
               !.linked_operations_ = from.linked_operations_,
               !.src_ = from.src_, !.dst_ = from.dst_]

\* Softmax1x1 other(std::move(*this))
MoveConstruct ==
    /\ ~Running
    /\ ~Faulted
    /\ ~other.exists
    /\ other' = MoveConstructed(ThisObject)
    /\ ThisBecomes(MovedFromObject(ThisObject))
    /\ last' = [op |-> "MoveConstruct", error |-> 0]
    /\ UNCHANGED <<device, mem, calls, cache>>
    /\ UNCHANGED device_vars

\* other = std::move(*this), *this = std::move(other), *this =
\* std::move(*this)
MoveAssign ==
    /\ ~Running
    /\ ~Faulted
    /\ other.exists
    /\ \E dir \in {"MoveAssignTo", "MoveAssignFrom", "MoveAssignSelf"} :
          /\ last' = [op |-> dir, error |-> 0]
          /\ IF dir = "MoveAssignSelf"
             THEN UNCHANGED <<definition_, linked_operations_, src_, dst_,
                              kernel_, other>>
             ELSE IF dir = "MoveAssignTo"
             THEN /\ other' = MoveAssigned(other, ThisObject)
                  /\ ThisBecomes(MovedFromObject(ThisObject))
             ELSE /\ ThisBecomes(MoveAssigned(ThisObject, other))
                  /\ other' = MovedFromObject(other)
    /\ UNCHANGED <<device, mem, calls, cache>>
    /\ UNCHANGED device_vars

\* GPUOperation::SetSrc / SetDst: the caller points the operator at another
\* pair of tensors, of another channel count, in buffers of their own; the
\* tensors used before keep their buffers.
SetTensors ==
    /\ ~Running
    /\ ~Faulted
    /\ src_.buf = "src"
    /\ \E c \in {3, MaxChannels + 2} :
        \E t \in {[c |-> c, b |-> src_.b]} :
          /\ src_' = [c |-> c, b |-> src_.b, buf |-> "src2"]
          /\ dst_' = [c |-> c, b |-> dst_.b, buf |-> "dst2"]
          /\ mem' = [n \in DOMAIN mem \cup {"src2", "dst2"} |->
                        IF n = "src2" THEN SrcContents(t, 1)
                        ELSE IF n = "dst2" THEN DstContents(t)
                        ELSE mem[n]]
    /\ UNCHANGED <<device, definition_, linked_operations_, other>>
    /\ UNCHANGED host_vars
    /\ UNCHANGED device_vars

(* ----------------------------- the kernel ----------------------------- *)
\* get_global_id(1) of the lanes of workgroup w (local size 1 along axis 1)
GlobalId1(w) == w

\* a read from a buffer; outside the buffer it returns whatever lies there
ReadBuffer(buf, b, z) ==
    IF b \in DOMAIN mem[buf] /\ z \in DOMAIN mem[buf][b]
    THEN mem[buf][b][z] ELSE <<0, 0, 0, 0>>

\* read_src("0", "0", "z"): ReadAsFloat4D(.., "B") with batch support,
\* ReadAsFloat3D otherwise (the address has no batch term)
read_src3D(B, z) == ReadBuffer(grid.p.src_data, 0, z)
read_src(B, z) ==
    IF definition_.batch_support
    THEN ReadBuffer(grid.p.src_data, B, z)
    ELSE ReadBuffer(grid.p.src_data, 0, z)

\* "if (B >= BATCH_SIZE) return;", emitted only with batch support
EarlyExitIdle(w, tid) ==
    IF definition_.batch_support /\ GlobalId1(w) >= grid.p.BATCH_SIZE
    THEN TRUE ELSE tid >= grid.p.size[1]
EarlyExit(w, tid) ==
    definition_.batch_support /\ GlobalId1(w) >= grid.p.BATCH_SIZE

\* float4 mask_temp = z == size.x - 1 ? mask : (float4)(1.0f);
MaskSelNever(z) == "ones"
MaskSel(z) == IF z = grid.p.size[1] - 1 THEN "mask" ELSE "ones"
MaskTemp(z) == IF MaskSel(z) = "mask" THEN grid.p.mask ELSE Ones

\* "float sum = 0.0f;": the private sum a lane enters pass 1 with
SumUninitialised == Undef
SumInitial == Rat(0)

\* Pass 1, the do-while of one lane: the slots it visits ...
RECURSIVE Pass1Visits(_, _, _)
Pass1Visits(tid, offset, s) ==
    LET z == offset + tid
        hit == z < grid.p.size[1]
        here == IF hit THEN {z} ELSE {}
        next == IF hit THEN offset + 32 ELSE offset
    IN  IF s + 1 < grid.p.size[2]
        THEN here \cup Pass1Visits(tid, next, s + 1)
        ELSE here

\* ... and the sum it accumulates: sum += dot(mask_temp, exp(src))
RECURSIVE Pass1Sum(_, _, _, _, _)
Pass1Sum(B, tid, offset, s, acc) ==
    LET z == offset + tid
        hit == z < grid.p.size[1]
        acc2 == IF hit THEN RatAdd(acc, Dot(MaskTemp(z), ExpV(read_src(B, z))))
                ELSE acc
        next == IF hit THEN offset + 32 ELSE offset
    IN  IF s + 1 < grid.p.size[2]
        THEN Pass1Sum(B, tid, next, s + 1, acc2)
        ELSE acc2

\* Pass 2, the second do-while: the slots a lane visits
Pass2VisitsOnce(tid, offset, s) ==
    IF offset + tid < grid.p.size[1] THEN {offset + tid} ELSE {}
RECURSIVE Pass2Visits(_, _, _)
Pass2Visits(tid, offset, s) ==
    LET z == offset + tid
        hit == z < grid.p.size[1]
        here == IF hit THEN {z} ELSE {}
        next == IF hit THEN offset + 32 ELSE offset
    IN  IF s + 1 < grid.p.size[2]
        THEN here \cup Pass2Visits(tid, next, s + 1)
        ELSE here

\* FLT4 res = TO_FLT4(exp(src) * sum), then the linked operations (TO_FLT4
\* converts nothing at the precision modelled, F32)
Pass2ValueMasked(B, z, recip) ==
    PostProcess(linked_operations_, grid.p.linked,
                [i \in 1 .. 4 |->
                    RatMul(Rat(MaskTemp(z)[i]),
                           ScaleV(ExpV(read_src(B, z)), recip)[i])], z)
Pass2ValueUnfused(B, z, recip) == ScaleV(ExpV(read_src(B, z)), recip)
Pass2Value(B, z, recip) ==
    PostProcess(linked_operations_, grid.p.linked,
                ScaleV(ExpV(read_src(B, z)), recip), z)

\* the batch element Write4D(.., "B") / Write3D(..) stores to
WriteBatch(B) == IF definition_.batch_support THEN B ELSE 0

\* lane 0 after the first barrier: dot((float4)(1.0f), tmp[0]) + ... + tmp[7]
RECURSIVE SumVectors(_, _)
SumVectors(t, k) ==
    IF k = TmpVectors THEN Rat(0)
    ELSE RatAdd(Dot(Ones, <<t[4 * k], t[4 * k + 1], t[4 * k + 2], t[4 * k + 3]>>),
                SumVectors(t, k + 1))

\* what lane 0 stores to tmpx1[0]: 1.0f / sum
PublishedTotal(total) == total
Published(total) == Recip(total)

\* barrier(CLK_LOCAL_MEM_FENCE): a lane leaves the barrier once every lane
\* of its workgroup has arrived at it
NoBarrier(w, at) == TRUE
Barrier1(w, at) == \A t \in Lanes : pc[w][t] \in at
Barrier2(w, at) == \A t \in Lanes : pc[w][t] \in at

\* The code a lane runs from each position: 0 from the entry to the first
\* barrier, 1 between the barriers, 2 after the second; 3: nothing is left.
Phase(at) == CASE at = "entry" -> 0 [] at = "barrier1" -> 1
               [] at = "barrier2" -> 2 [] OTHER -> 3

\* the scalars of tmpx1 lane tid stores to and loads from in that code:
\* "tmpx1[tid] = sum"; lane 0's "dot(.., tmp[0..7])" and "tmpx1[0] = 1.0f /
\* sum"; "sum = tmpx1[0]"
SharedWrites(tid, ph) ==
    IF ph = 0 THEN {tid} ELSE IF ph = 1 /\ tid = 0 THEN {0} ELSE {}
SharedReads(tid, ph) ==
    IF ph = 1 /\ tid = 0 THEN 0 .. 4 * TmpVectors - 1
    ELSE IF ph = 2 THEN {0} ELSE {}

\* the subgroups of a workgroup and the lanes of each
SubgroupWidth == IntegralDivideRoundUp(WorkGroupSize, device.subgroups)
Subgroups == 0 .. IntegralDivideRoundUp(WorkGroupSize, SubgroupWidth) - 1

\* lane t belongs to subgroup g and stands at position at
At(w, g, t, at) == t \div SubgroupWidth = g /\ pc[w][t] = at

\* A subgroup runs from the kernel's entry to the first barrier: the batch
\* check, pass 1, and the store of the partial sum to tmpx1[tid].
Pass1Step(w, g) ==
    /\ grid.active
    /\ \E t \in Lanes : At(w, g, t, "entry")
    /\ pc' = [pc EXCEPT ![w] = [t \in Lanes |->
                IF ~At(w, g, t, "entry") THEN pc[w][t]
                ELSE IF EarlyExit(w, t) THEN "exited" ELSE "barrier1"]]
    /\ sum' = [sum EXCEPT ![w] = [t \in Lanes |->
                IF pc[w][t] # pc'[w][t] /\ pc'[w][t] = "barrier1"
                THEN Pass1Sum(GlobalId1(w), t, 0, 0, SumInitial) ELSE sum[w][t]]]
    /\ tmp' = [tmp EXCEPT ![w] = [t \in Lanes |->
                IF pc[w][t] # pc'[w][t] /\ pc'[w][t] = "barrier1"
                THEN sum'[w][t] ELSE tmp[w][t]]]
    /\ mask_temp' = [mask_temp EXCEPT ![w] = @ \cup
                {[z |-> z, sel |-> MaskSel(z), val |-> MaskTemp(z)] :
                    z \in UNION {Pass1Visits(t, 0, 0) :
                        t \in {u \in Lanes : pc[w][u] # pc'[w][u]
                                             /\ pc'[w][u] = "barrier1"}}}]
    /\ UNCHANGED <<grid, mem>>
    /\ UNCHANGED host_vars
    /\ UNCHANGED fixed_vars

\* A subgroup runs from the first barrier to the second: lane 0 adds the 32
\* partial sums up and stores the reciprocal to tmpx1[0]; the others do nothing.
ReduceStep(w, g) ==
    /\ grid.active
    /\ \E t \in Lanes : At(w, g, t, "barrier1")
    /\ Barrier1(w, {"barrier1", "barrier2", "done"})
    /\ pc' = [pc EXCEPT ![w] = [t \in Lanes |->
                IF At(w, g, t, "barrier1") THEN "barrier2" ELSE pc[w][t]]]
    /\ IF At(w, g, 0, "barrier1")
       THEN \E total \in {SumVectors(tmp[w], 0)} :
                /\ sum' = [sum EXCEPT ![w][0] = total]
                /\ tmp' = [tmp EXCEPT ![w][0] = Published(total)]
       ELSE UNCHANGED <<sum, tmp>>
    /\ UNCHANGED <<grid, mem, mask_temp>>
    /\ UNCHANGED host_vars
    /\ UNCHANGED fixed_vars

\* A subgroup runs from the second barrier to the end: sum = tmpx1[0], then
\* pass 2 computes, post-processes and writes every slot the lane visits.
Pass2Step(w, g) ==
    /\ grid.active
    /\ \E t \in Lanes : At(w, g, t, "barrier2")
    /\ Barrier2(w, {"barrier2", "done"})
    /\ pc' = [pc EXCEPT ![w] = [t \in Lanes |->
                IF At(w, g, t, "barrier2") THEN "done" ELSE pc[w][t]]]
    /\ sum' = [sum EXCEPT ![w] = [t \in Lanes |->
                IF At(w, g, t, "barrier2") THEN tmp[w][0] ELSE sum[w][t]]]
    /\ \E seen \in {UNION {Pass2Visits(t, 0, 0) :
                        t \in {u \in Lanes : At(w, g, u, "barrier2")}}} :
       \E old \in {mem[grid.p.dst_data]} :
         mem' = [mem EXCEPT ![grid.p.dst_data] =
                    [b \in DOMAIN old |-> [z \in DOMAIN old[b] |->
                        IF b = WriteBatch(GlobalId1(w)) /\ z \in seen
                        THEN Pass2Value(GlobalId1(w), z, tmp[w][0])
                        ELSE old[b][z]]]]
    /\ UNCHANGED <<grid, tmp, mask_temp>>
    /\ UNCHANGED host_vars
    /\ UNCHANGED fixed_vars

(* --------------------------- specifications --------------------------- *)
\* The operator as constructed by CreateSoftmax1x1 (not compiled, nothing
\* bound, nothing dispatched), over tensors of shape (b, 1, 1, c), on a
\* device that runs a workgroup as sg subgroups, for a caller that calls
\* AddToQueue up to n times.
InitWith(Cs, Bs, Flags, Chs, Seeds, Sgs, n) ==
    \E c \in Cs, b \in Bs, f \in Flags, ch \in Chs, seed \in Seeds, sg \in Sgs :
        /\ device = [subgroups |-> sg, max_calls |-> n]
        /\ definition_ = [batch_support |-> f]
        /\ linked_operations_ = ch
        /\ src_ = [c |-> c, b |-> b, buf |-> "src"]
        /\ dst_ = [c |-> c, b |-> b, buf |-> "dst"]
        /\ mem = [src |-> SrcContents([c |-> c, b |-> b], seed),
                  dst |-> DstContents([c |-> c, b |-> b])]
        /\ kernel_ = [compiled |-> FALSE, handle |-> 0, binding_counter |-> 0,
                      args |-> <<>>]
        /\ cache = [entries |-> {}, invoked |-> FALSE]
        /\ other = NoObject
        /\ last = [op |-> "none", error |-> 0]
        /\ calls = 0
        /\ grid = [active |-> FALSE, global |-> <<0, 0, 0>>,
                   local |-> <<1, 1, 1>>, p |-> <<>>]
        /\ pc = <<>>
        /\ tmp = <<>>
        /\ sum = <<>>
        /\ mask_temp = <<>>

Pass1 == \E w \in DOMAIN pc : \E g \in Subgroups : Pass1Step(w, g)
Reduce == \E w \in DOMAIN pc : \E g \in Subgroups : ReduceStep(w, g)
Pass2 == \E w \in DOMAIN pc : \E g \in Subgroups : Pass2Step(w, g)
Step == Pass1 \/ Reduce \/ Pass2

Next == Compile \/ AddToQueue \/ Pass1 \/ Reduce \/ Pass2

\* the channel counts the round-trip property names
TestedChannels == {1, 3, 4, 5, 31, 32, 33, 128}

\* the host protocol: both flags, every chain, every batch size
Init == InitWith({1, MaxChannels}, 1 .. MaxBatch, BOOLEAN, Chains(MaxLinked),
                 {0}, {1}, MaxCalls)
Spec == Init /\ [][Next]_vars

\* one workgroup and its lanes: the tested channel counts, a sweep of the
\* small ones, and 130 (33 slots, so that lane 0 visits a second slot)
KernelInit == InitWith(TestedChannels \cup {130} \cup (1 .. MaxChannels), {1},
                       BOOLEAN, {<<>>}, {0, 1}, {MaxSubgroups}, 1)
KernelSpec == KernelInit /\ [][Next]_vars

\* several workgroups side by side, with batch support
BatchInit == InitWith({5, 16}, 1 .. MaxBatch, {TRUE}, Chains(1), {0, 1}, {2}, 1)
BatchSpec == BatchInit /\ [][Next]_vars

\* The device runs every lane that can run: a subgroup that is not waiting
\* at a barrier is eventually scheduled.
\* the host protocol with a caller that replaces the tensors between calls
RebindNext == Next \/ SetTensors
RebindInit == InitWith({1, MaxChannels}, {1}, BOOLEAN, Chains(MaxLinked),
                       {0}, {1}, MaxCalls)
RebindSpec == RebindInit /\ [][RebindNext]_vars

\* the operator moved to and from a second object between the host calls
MoveNext == Next \/ MoveConstruct \/ MoveAssign
MoveInit == InitWith({MaxChannels}, {1}, BOOLEAN, Chains(1), {0}, {1}, MaxCalls)
MoveSpec == MoveInit /\ [][MoveNext]_vars

\* fusion: every chain of the three kinds of linked operation, one workgroup
LinkedInit == InitWith({MaxChannels, 33}, {1}, BOOLEAN, AllChains(MaxLinked + 1),
                       {1}, {2}, 1)
LinkedSpec == LinkedInit /\ [][Next]_vars

FairInit == InitWith({1, 33}, 1 .. MaxBatch, BOOLEAN, {<<>>}, {0}, {2}, 2)
FairSpec == FairInit /\ [][Next]_vars /\ WF_vars(Step)

(* ------------------------- reference values --------------------------- *)
\* the input of batch element b at channel c
InputAt(b, c) == mem.src[b][c \div 4][(c % 4) + 1]

\* exp(x_0) + ... + exp(x_{n-1}) of batch element b
RECURSIVE SumExpOver(_, _, _)
SumExpOver(b, lo, hi) ==
    IF hi <= lo THEN 0
    ELSE IF hi = lo + 1 THEN Exp(InputAt(b, lo))
    ELSE SumExpOver(b, lo, (lo + hi) \div 2) + SumExpOver(b, (lo + hi) \div 2, hi)
SumExp(b, n) == SumExpOver(b, 0, n)

\* the batch element a workgroup works on
ElementOf(w) == IF definition_.batch_support THEN w ELSE 0

AllAt(w, at) == \A t \in Lanes : pc[w][t] = at
AllDone == grid.active /\ \A w \in DOMAIN pc : AllAt(w, "done")
Succeeded == last.op = "AddToQueue" /\ last.error = 0

(* ------------------------------ claims -------------------------------- *)
\* C1: once lane 0 has added the 32 partial sums up (it stands at the second
\* barrier and its private sum holds the grand total), that total is the sum
\* of exp(x_c) over exactly the channels c < C of the workgroup's batch
\* element: each once, and nothing from the padding lanes of the last slot.
C1_GrandTotal ==
    \A w \in DOMAIN pc :
        pc[w][0] = "barrier2" =>
            sum[w][0] = Rat(SumExp(ElementOf(w), Channels(src_)))

\* a total over 130 channels: 33 slots, lane 0 visits two of them and the
\* last slot has two padding lanes
C1_Witness ==
    \E w \in DOMAIN pc :
        /\ pc[w][0] = "barrier2"
        /\ Channels(src_) = 130
        /\ InputAt(0, 130) # 0
        /\ sum[w][0] = Rat(SumExp(ElementOf(w), 130))

\* the value the destination holds for channel c of batch element b
DstAt(b, c) == mem.dst[b][c \div 4][(c % 4) + 1]

\* the numerators of the outputs of channels lo .. hi-1, added up
RECURSIVE SumNumeratorsOver(_, _, _)
SumNumeratorsOver(b, lo, hi) ==
    IF hi <= lo THEN 0
    ELSE IF hi = lo + 1 THEN DstAt(b, lo)[1]
    ELSE SumNumeratorsOver(b, lo, (lo + hi) \div 2)
         + SumNumeratorsOver(b, (lo + hi) \div 2, hi)
SumNumerators(b, n) == SumNumeratorsOver(b, 0, n)

\* C2: for a (1, 1, C) input with C one of 1, 3, 4, 5, 31, 32, 33, 128 and no
\* linked operation, after the dispatch every channel c < C of the
\* destination holds exp(x_c) / (sum of exp over the valid channels), and
\* these outputs sum to 1 (they share one denominator, which their
\* numerators add up to).
C2_Normalised ==
    (AllDone /\ Batch(src_) = 1 /\ Channels(src_) \in TestedChannels
        /\ linked_operations_ = <<>>) =>
        /\ \A c \in 0 .. Channels(src_) - 1 :
              /\ RatEq(DstAt(0, c),
                       <<Exp(InputAt(0, c)), SumExp(0, Channels(src_))>>)
              /\ DstAt(0, c)[2] = DstAt(0, 0)[2]
        /\ SumNumerators(0, Channels(src_)) = DstAt(0, 0)[2]
        /\ DstAt(0, 0)[2] > 0

C2_Witness ==
    /\ AllDone /\ Batch(src_) = 1 /\ Channels(src_) = 128
    /\ linked_operations_ = <<>>
    /\ SumNumerators(0, 128) = DstAt(0, 0)[2]
    /\ DstAt(0, 127)[2] > 0

\* C3: lane 0 is past its combining step only when no lane of the workgroup
\* is still before the first barrier (all 32 partial sums are in shared
\* storage), and the value any lane has read from shared slot 0 for pass 2 is
\* the reciprocal of the full total of its own workgroup's batch element.
C3_BarrierOrder ==
    \A w \in DOMAIN pc :
        /\ pc[w][0] \in {"barrier2", "done"} =>
              \A t \in Lanes : /\ pc[w][t] \in {"barrier1", "barrier2", "done"}
                               /\ tmp[w][t] # Undef
        /\ \A t \in Lanes :
              pc[w][t] = "done" =>
                 RatEq(sum[w][t], <<1, SumExp(ElementOf(w), Channels(src_))>>)

\* lane 31 has read the reciprocal and finished while lane 0, which wrote
\* it, has not yet run its pass 2
C3_Witness ==
    \E w \in DOMAIN pc :
        /\ pc[w][31] = "done" /\ pc[w][0] = "barrier2"
        /\ Channels(src_) = 33
        /\ RatEq(sum[w][31], <<1, SumExp(ElementOf(w), 33)>>)

\* in no workgroup has one lane left at the batch check while another went
\* on, and a lane that left has written nothing
C4_Uniform ==
    \A w \in DOMAIN pc :
        /\ \/ \A t \in Lanes : pc[w][t] \in {"entry", "exited"}
           \/ \A t \in Lanes : pc[w][t] # "exited"
        /\ \A t \in Lanes :
              pc[w][t] = "exited" => tmp[w][t] = Undef /\ sum[w][t] = Undef

\* C4: in every workgroup either every lane leaves at the batch check, before
\* any barrier and having read and written nothing, or no lane leaves and all
\* go through both barriers; so no lane waits at a barrier for a lane that
\* has left, and every dispatch that is running comes to its end.
C4_NoBarrierDeadlock == [](C4_Uniform) /\ (Running ~> ~Running)

\* two workgroups, batch check compiled in, every lane through both barriers
C4_Witness ==
    /\ definition_.batch_support /\ Batch(dst_) = 2
    /\ AllDone
    /\ \A w \in DOMAIN pc : \A t \in Lanes : tmp[w][t] # Undef

\* C5: pass 1 takes the bound mask for slot z exactly when z is the last
\* occupied slot ceil(C/4) - 1 and all ones for every other slot, and the
\* mask_temp it uses has lane i zero exactly when channel 4*z + i is >= C.
C5_MaskOnlyLastSlot ==
    \A w \in DOMAIN mask_temp : \A e \in mask_temp[w] :
        /\ e.z \in 0 .. (Channels(src_) + 3) \div 4 - 1
        /\ (e.sel = "mask") = (e.z = (Channels(src_) + 3) \div 4 - 1)
        /\ \A i \in 1 .. 4 :
              e.val[i] = IF 4 * e.z + (i - 1) < Channels(src_) THEN 1 ELSE 0

\* slot 32 of a 130-channel tensor: channels 128 and 129 kept, two lanes
\* zeroed, while slot 0 of the same pass used all ones
C5_Witness ==
    \E w \in DOMAIN mask_temp :
        /\ Channels(src_) = 130
        /\ [z |-> 32, sel |-> "mask", val |-> <<1, 1, 0, 0>>] \in mask_temp[w]
        /\ [z |-> 0, sel |-> "ones", val |-> <<1, 1, 1, 1>>] \in mask_temp[w]

\* the mask arguments found among the kernel's bound arguments
BoundMasks ==
    {kernel_.args[i].val : i \in {j \in DOMAIN kernel_.args :
                                    kernel_.args[j].name = Name("mask")}}

\* C6: the mask AddToQueue binds has exactly C mod 4 lanes equal to 1 (4 when
\* C mod 4 = 0), its other lanes are 0, and no 0 lane comes before a 1 lane.
C6_MaskShape ==
    \A m \in BoundMasks :
        /\ \A i \in 1 .. 4 : m[i] \in {0, 1}
        /\ Cardinality({i \in 1 .. 4 : m[i] = 1})
              = (IF Channels(src_) % 4 = 0 THEN 4 ELSE Channels(src_) % 4)
        /\ \A i \in 1 .. 3 : m[i] >= m[i + 1]

C6_Witness ==
    /\ Succeeded
    /\ Channels(src_) = 33
    /\ BoundMasks = {<<1, 0, 0, 0>>}

\* C7: after an AddToQueue that returned ok, the arguments bound are, position
\* by position and in number, the parameters main_function declares: the
\* source buffer first, the linked operations' arguments in declaration
\* order, the destination, int4 tensor_size, int2 size, BATCH_SIZE exactly
\* with batch support, and the mask last.
C7_BindingOrder ==
    Succeeded =>
        LET ps == KernelParams(definition_, linked_operations_)
            n == Len(ps)
        IN  /\ kernel_.binding_counter = n
            /\ Len(kernel_.args) = n
            /\ \A i \in 1 .. n : /\ kernel_.args[i].name = ps[i].name
                                 /\ kernel_.args[i].type = ps[i].type
            /\ kernel_.args[1].name = Name("src_data")
            /\ kernel_.args[n].name = Name("mask")
            /\ (\E i \in 1 .. n : kernel_.args[i].name = Name("BATCH_SIZE"))
                  = definition_.batch_support

\* batch support and one linked operation that declares two arguments
C7_Witness ==
    /\ Succeeded
    /\ definition_.batch_support
    /\ linked_operations_ = <<Add1>>
    /\ Len(kernel_.args) = 8
    /\ kernel_.args[7].name = Name("BATCH_SIZE")
    /\ kernel_.args[3].name = LinkedName(1, 2)

\* C8, as the claim states it: the global size is (32, N, 1) with N the batch
\* size with batch support and 1 without, the local size (32, 1, 1).
C8_AsClaimed ==
    grid.active =>
        /\ grid.local = <<32, 1, 1>>
        /\ grid.global = <<32, IF definition_.batch_support THEN Batch(dst_) ELSE 1, 1>>

\* the workgroup's output: every lane of every slot of batch element b holds
\* exp(input lane) / (total of b), passed through the linked chain
ReferenceAt(b, z, i) ==
    PostProcess(linked_operations_, [k \in 1 .. Len(linked_operations_) |->
                                        linked_operations_[k].k],
                [j \in 1 .. 4 |-> <<Exp(mem.src[b][z][j]),
                                    SumExp(b, Channels(src_))>>], z)[i]

\* C9: with batch support, what a workgroup that has finished wrote for its
\* batch element b is a function of the inputs of element b alone (two runs
\* that agree on element b get the same outputs for b), whatever the other
\* workgroups have or have not done yet.
C9_BatchIndependent ==
    \A w \in DOMAIN pc :
        (definition_.batch_support /\ AllAt(w, "done")) =>
            \A z \in DOMAIN mem.dst[w] : \A i \in 1 .. 4 :
                RatEq(mem.dst[w][z][i], ReferenceAt(w, z, i))

\* element 1 is complete while the workgroup of element 0 has not started
C9_Witness ==
    /\ definition_.batch_support /\ Batch(dst_) >= 2
    /\ grid.active
    /\ AllAt(1, "done") /\ AllAt(0, "entry")
    /\ InputAt(0, 0) # InputAt(1, 0)
    /\ \A z \in DOMAIN mem.dst[1] : \A i \in 1 .. 4 :
          RatEq(mem.dst[1][z][i], ReferenceAt(1, z, i))

\* the last AddToQueue returned the error of a bind step
BindFailed ==
    /\ last.op = "AddToQueue"
    /\ last.error \in 1 .. Len(BindSequence(definition_, linked_operations_,
                                            src_, dst_))

\* C10, as the claim states it: after an AddToQueue in which a bind step
\* failed, the binding cursor is back at zero.
C10_AsClaimed == BindFailed => kernel_.binding_counter = 0

\* C10, amended: the cursor is reset when AddToQueue starts and not when it
\* fails, so after a failed call it stands at the number of arguments that
\* call bound before the failing step, and those positions hold that call's
\* arguments.
C10_CursorAfterFailure ==
    BindFailed =>
        /\ kernel_.binding_counter = last.error - 1
        /\ \A i \in 1 .. last.error - 1 :
              kernel_.args[i] = BindSequence(definition_, linked_operations_,
                                             src_, dst_)[i]

\* a second call that failed at its third bind: two arguments bound
C10_Witness ==
    /\ BindFailed
    /\ calls = 2
    /\ last.error = 3
    /\ kernel_.binding_counter = 2

\* C11: an AddToQueue in which bind step e fails returns the error of that
\* step, leaves the cursor at e - 1 and every position from e on as it was,
\* and submits nothing; whenever a dispatch is submitted the call returned ok
\* with all arguments bound; and a failure of the submission itself (all binds
\* done) is what the call returns, with nothing set running.
C11_FirstErrorAborts ==
    [][(last'.op = "AddToQueue" /\ calls' = calls + 1) =>
         LET seq == BindSequence(definition_, linked_operations_, src_, dst_)
             n == Len(seq)
             e == last'.error
         IN  /\ e \in 0 .. n + 1
             /\ e \in 1 .. n =>
                   /\ kernel_'.binding_counter = e - 1
                   /\ \A i \in 1 .. e - 1 : kernel_'.args[i] = seq[i]
                   /\ \A i \in DOMAIN kernel_'.args :
                         i >= e => /\ i \in DOMAIN kernel_.args
                                   /\ kernel_'.args[i] = kernel_.args[i]
                   /\ UNCHANGED device_vars
             /\ e = n + 1 =>
                   /\ kernel_'.binding_counter = n
                   /\ UNCHANGED device_vars
             /\ (device_vars' # device_vars) =>
                   /\ e = 0
                   /\ kernel_'.binding_counter = n
                   /\ \A i \in 1 .. n : kernel_'.args[i] = seq[i]
       ]_vars

\* the second bind of a call fails after an earlier call's dispatch has run:
\* the earlier call's arguments still stand at the positions from 2 on
C11_Witness ==
    /\ BindFailed
    /\ last.error = 2
    /\ AllDone
    /\ kernel_.binding_counter = 1
    /\ Len(kernel_.args) = Len(BindSequence(definition_, linked_operations_,
                                            src_, dst_))

\* the slots tid, tid + 32, tid + 64, ... below S
SlotsOf(tid, S) == {z \in 0 .. S - 1 : z % 32 = tid}

\* the slots of batch element b the destination holds a written value for
WrittenSlots(b) == {z \in DOMAIN mem.dst[b] : mem.dst[b][z] # UnwrittenV}

\* C15: with S = ceil(C/4) slots and ceil(S/32) iterations bound as size,
\* lane tid visits in pass 1 and in pass 2 exactly the slots tid, tid + 32,
\* ... below S (so each slot below S belongs to one lane, once per pass, and
\* none at or beyond S is touched); the slots pass 1 has read are those of
\* the lanes that ran it and the slots written are those of the lanes that
\* ran pass 2.
C15_StrideTraversal ==
    grid.active =>
        \E S \in {Depth(src_)} :
            /\ S >= 1
            /\ grid.p.size = <<S, IntegralDivideRoundUp(S, 32)>>
            /\ \A t \in Lanes : /\ Pass1Visits(t, 0, 0) = SlotsOf(t, S)
                                /\ Pass2Visits(t, 0, 0) = SlotsOf(t, S)
            /\ \A w \in DOMAIN pc :
                  {e.z : e \in mask_temp[w]}
                     = UNION {SlotsOf(t, S) :
                                t \in {u \in Lanes : pc[w][u] \in
                                          {"barrier1", "barrier2", "done"}}}
            /\ \A b \in DOMAIN mem.dst :
                  \E ran \in {UNION {SlotsOf(t, S) :
                                t \in {u \in Lanes : \E w \in DOMAIN pc :
                                          /\ WriteBatch(GlobalId1(w)) = b
                                          /\ pc[w][u] = "done"}}} :
                      /\ ran \subseteq WrittenSlots(b)
                      /\ calls = 1 => WrittenSlots(b) = ran

\* 130 channels, 33 slots, two iterations: lane 0 has visited slots 0 and
\* 32, lane 1 only slot 1, and all 33 slots are written
C15_Witness ==
    /\ AllDone
    /\ Channels(src_) = 130
    /\ grid.p.size = <<33, 2>>
    /\ Pass2Visits(0, 0, 0) = {0, 32}
    /\ Pass1Visits(1, 0, 0) = {1}
    /\ WrittenSlots(0) = 0 .. 32

\* C19: the dispatch runs 32 lanes per workgroup and tmp[8] holds 32 scalars,
\* one per lane; a lane that has reached the first barrier has written its
\* scalar in this dispatch, a 0 when it owns no slot (tid >= S); so when lane
\* 0 is past its combining step every one of the 32 scalars it read had been
\* written, and what it read from the lanes without a slot was 0.
C19_AllPartialsWritten ==
    grid.active =>
        /\ grid.local[1] = 4 * TmpVectors
        /\ \A w \in DOMAIN pc :
              /\ DOMAIN tmp[w] = 0 .. 4 * TmpVectors - 1
              /\ \A t \in Lanes :
                    pc[w][t] \in {"barrier1", "barrier2", "done"} =>
                        /\ tmp[w][t] # Undef /\ tmp[w][t][2] # 0
                        /\ (t >= Depth(src_) /\ t # 0) => tmp[w][t] = Rat(0)
              /\ pc[w][0] \in {"barrier2", "done"} =>
                    /\ \A t \in Lanes : tmp[w][t] # Undef /\ tmp[w][t][2] # 0
                    /\ sum[w][0] # Undef /\ sum[w][0][2] # 0

\* one slot only (C = 3): lane 0 has combined, lanes 1 .. 31 own no slot and
\* each wrote a 0
C19_Witness ==
    /\ grid.active
    /\ Channels(src_) = 3 /\ Depth(src_) = 1
    /\ \E w \in DOMAIN pc :
          /\ pc[w][0] = "barrier2"
          /\ \A t \in 1 .. 31 : tmp[w][t] = Rat(0)
          /\ sum[w][0] = Rat(SumExp(ElementOf(w), Channels(src_)))

\* lane t's code of phase p and lane u's code of phase q touch a common
\* scalar of tmpx1, one of them storing to it
Conflict(t, p, u, q) ==
    \/ SharedWrites(t, p) \cap (SharedWrites(u, q) \cup SharedReads(u, q)) # {}
    \/ SharedReads(t, p) \cap SharedWrites(u, q) # {}

\* While lane t runs its phase p, lane u stands at position pu: u's phase q is
\* separated from it by a barrier only if q is earlier and u has run it, or
\* q is later and u has not.
Unordered(p, pu, q) == q = p \/ (q < p /\ q >= pu) \/ (q > p /\ q < pu)

\* C20: in every step of every workgroup, the shared accesses of a lane that
\* runs are in conflict with no access of another lane that a barrier does
\* not separate from them; tmp changes only where a running lane stores; and
\* lane 0 stores the reciprocal over tmpx1[0] after it has read all 32
\* partial sums (its total is the sum of what tmp held), the other lanes
\* touching nothing between the barriers.
C20_NoSharedRace ==
    [][(grid.active /\ grid' = grid /\ pc' # pc) =>
         \A w \in DOMAIN pc :
            \E ran \in {{t \in Lanes : pc'[w][t] # pc[w][t]
                                        /\ pc'[w][t] # "exited"}} :
              /\ \A t \in ran : \A u \in Lanes \ {t} :
                    pc[w][u] # "exited" =>
                       \A q \in 0 .. 2 :
                          Unordered(Phase(pc[w][t]), Phase(pc[w][u]), q)
                             => ~Conflict(t, Phase(pc[w][t]), u, q)
              /\ \A i \in DOMAIN tmp[w] :
                    tmp'[w][i] # tmp[w][i] =>
                       \E t \in ran : i \in SharedWrites(t, Phase(pc[w][t]))
              /\ (0 \in ran /\ pc[w][0] = "barrier1") =>
                    /\ sum'[w][0] = SumVectors(tmp[w], 0)
                    /\ tmp'[w][0] = Recip(sum'[w][0])
                    /\ \A i \in 1 .. 31 : tmp'[w][i] = tmp[w][i]
       ]_vars

\* lane 0 has stored the reciprocal while lane 31 has not left the first
\* barrier yet, and a lane in between is already waiting at the second
C20_Witness ==
    \E w \in DOMAIN pc :
        /\ pc[w][0] = "barrier2" /\ pc[w][31] = "barrier1"
        /\ pc[w][16] = "barrier2"
        /\ tmp[w][0] = Recip(sum[w][0])
        /\ tmp[w][0] # Undef

\* What a chain does to a value v, as the pair <<a, b>> of a * v + b: a
\* multiplication scales both, an addition raises b, in the order of the chain.
RECURSIVE AffineFrom(_, _, _, _)
AffineFrom(linked, i, ab, z) ==
    IF i > Len(linked) THEN ab
    ELSE AffineFrom(linked, i + 1,
                    IF linked[i].op = "mul"
                    THEN <<linked[i].k * ab[1], linked[i].k * ab[2]>>
                    ELSE IF linked[i].op = "addz" THEN <<ab[1], ab[2] + z>>
                    ELSE <<ab[1], ab[2] + linked[i].k>>, z)
Affine(linked, z) == AffineFrom(linked, 1, <<1, 0>>, z)

\* C16: at every moment every slot the destination holds a written value for
\* holds, lane by lane, the softmax value exp(x) / total taken through the
\* whole chain once, first operation first, with the slot's own coordinate z
\* (a * softmax + b for the chain's <<a, b>>); with the single operation that
\* scales by 2 it is 2 * softmax.
C16_Fused ==
    \A b \in DOMAIN mem.dst : \A z \in WrittenSlots(b) :
        \E ab \in {Affine(linked_operations_, z)} :
        \E total \in {SumExp(b, Channels(src_))} :
            /\ \A i \in 1 .. 4 :
                  RatEq(mem.dst[b][z][i],
                        <<ab[1] * Exp(mem.src[b][z][i]) + ab[2] * total, total>>)
            /\ linked_operations_ = <<Scale2>> =>
                  \A i \in 1 .. 4 :
                     RatEq(mem.dst[b][z][i], <<2 * Exp(mem.src[b][z][i]), total>>)

\* scale by 2 alone, every slot written
C16_Witness ==
    /\ AllDone
    /\ linked_operations_ = <<Scale2>>
    /\ Channels(src_) = 33
    /\ RatEq(mem.dst[0][8][1], <<2 * Exp(InputAt(0, 32)), SumExp(0, 33)>>)

\* the positions of slot z that lie at or beyond the channel count
PaddingLanes(z) == {i \in 1 .. 4 : 4 * z + (i - 1) >= Channels(src_)}

\* C17: without linked operations, every lane of a written slot, the padding
\* lanes of the last slot included, holds exp(input lane) times the
\* reciprocal of the total, nothing being masked in pass 2; the total is
\* that of the valid channels alone, so what the valid channels hold does not
\* depend on what the input's padding lanes contain.
C17_PaddingWritten ==
    linked_operations_ = <<>> =>
        \A b \in DOMAIN mem.dst : \A z \in WrittenSlots(b) :
            \E total \in {SumExp(b, Channels(src_))} :
                /\ \A i \in 1 .. 4 :
                      /\ RatEq(mem.dst[b][z][i],
                               <<Exp(mem.src[b][z][i]), total>>)
                      /\ mem.dst[b][z][i][1] # 0
                /\ PaddingLanes(z) # {} => z = Depth(src_) - 1
                /\ (Channels(src_) % 4 # 0 /\ z = Depth(src_) - 1)
                      => PaddingLanes(z) # {}

\* C = 5: the last slot holds channel 4 and three padding lanes, whose
\* inputs differ from one another, all written
C17_Witness ==
    /\ AllDone
    /\ Channels(src_) = 5
    /\ linked_operations_ = <<>>
    /\ PaddingLanes(1) = {2, 3, 4}
    /\ mem.src[0][1][2] # mem.src[0][1][3]
    /\ RatEq(mem.dst[0][1][3], <<Exp(mem.src[0][1][3]), SumExp(0, 5)>>)
    /\ RatEq(mem.dst[0][1][1], <<Exp(InputAt(0, 4)), SumExp(0, 5)>>)

\* C13, as the claim states it: an AddToQueue on an operator that is not
\* compiled is stopped by an assertion, so it never returns a Status; every
\* AddToQueue that has returned one was made on a compiled operator, and it
\* has bound nothing and dispatched nothing otherwise.
C13_AsClaimed ==
    /\ last.op = "AddToQueue" => kernel_.compiled
    /\ ~kernel_.compiled => (kernel_.args = <<>> /\ ~grid.active)

\* C12: whatever the earlier calls did, an AddToQueue binds from position
\* zero: the arguments it binds stand at positions 1, 2, ... and are computed
\* from the tensors the operator points at when it is called; when it
\* returns ok the argument list is exactly that sequence, mask and sizes of
\* the current tensors included, and these are what the dispatch runs with.
C12_RebindsFromZero ==
    [][(last'.op = "AddToQueue" /\ calls' = calls + 1) =>
         \E seq \in {BindSequence(definition_, linked_operations_, src_, dst_)} :
            /\ kernel_'.binding_counter <= Len(seq)
            /\ \A i \in 1 .. kernel_'.binding_counter :
                  kernel_'.args[i] = seq[i]
            /\ last'.error = 0 =>
                  /\ kernel_'.binding_counter = Len(seq)
                  /\ kernel_'.args = seq
                  /\ grid'.p.mask = GetMaskForLastPlane(Channels(src_))
                  /\ grid'.p.size = <<Depth(src_),
                                      IntegralDivideRoundUp(Depth(src_), 32)>>
                  /\ grid'.p.tensor_size = GetSizeWithDepth(src_)
                  /\ grid'.p.src_data = src_.buf
                  /\ grid'.p.dst_data = dst_.buf
       ]_vars

\* a first dispatch has written the first destination; the tensors were
\* replaced by three-channel ones, and the second call has bound their
\* buffers, sizes and mask
C12_Witness ==
    /\ Succeeded /\ calls = 2
    /\ mem.dst[0][0] # UnwrittenV
    /\ Channels(dst_) = 3 /\ dst_.buf = "dst2"
    /\ kernel_.args = BindSequence(definition_, linked_operations_, src_, dst_)
    /\ BoundMasks = {<<1, 1, 1, 0>>}
    /\ grid.p.dst_data = "dst2"

\* C14: the source text is a function of the operation definition and the
\* linked operations alone, so a Compile presents the key of every earlier
\* Compile of the same operator.  A Compile whose key the cache holds gets
\* the program stored under it, succeeds, and neither runs the compiler nor
\* changes the cache; one whose key it does not hold runs the compiler and,
\* if that succeeds, leaves the program in the cache; and a Compile of an
\* operator that is compiled already is always of the first kind.
C14_CacheHit ==
    [][(last'.op = "Compile" /\ ~MovedFrom) =>
         \E key \in {CompileKey(definition_, linked_operations_)} :
            /\ key[1] = GetSoftmaxKernelCode(definition_, linked_operations_)
            /\ key[2] = "main_function"
            /\ key \in CachedKeys(cache) =>
                  /\ ~cache'.invoked
                  /\ cache'.entries = cache.entries
                  /\ last'.error = 0
                  /\ kernel_'.compiled
                  /\ kernel_'.handle = HandleOf(cache, key)
            /\ key \notin CachedKeys(cache) =>
                  /\ cache'.invoked
                  /\ last'.error = 0 =>
                        /\ key \in CachedKeys(cache')
                        /\ kernel_'.handle = HandleOf(cache', key)
                  /\ last'.error # 0 =>
                        /\ cache'.entries = cache.entries
                        /\ kernel_' = kernel_
            /\ kernel_.compiled =>
                  /\ key \in CachedKeys(cache)
                  /\ HandleOf(cache, key) = kernel_.handle
       ]_vars

\* a Compile after an AddToQueue of the compiled operator: the one program
\* of the cache again, the compiler not run
C14_Witness ==
    /\ last.op = "Compile" /\ last.error = 0
    /\ calls >= 1
    /\ ~cache.invoked
    /\ Cardinality(cache.entries) = 1
    /\ kernel_.compiled
    /\ kernel_.handle = HandleOf(cache, CompileKey(definition_, linked_operations_))

\* the kernel and the base state of an object
StateOf(o) == <<o.kernel_, o.definition_, o.linked_operations_, o.src_, o.dst_>>

\* an object that has been moved from: no kernel, no tensors
IsMovedFrom(o) ==
    /\ ~o.kernel_.compiled /\ o.kernel_.handle = 0 /\ o.kernel_.args = <<>>
    /\ o.src_ = NoTensor /\ o.dst_ = NoTensor

\* C18: a move construction or a move assignment leaves in its destination
\* the kernel (handle, cursor, bound arguments) and the base state its source
\* had, so the destination is compiled exactly if the source was, and leaves
\* the source without a kernel; an assignment of the operator to itself
\* changes neither object; and as long as the operator is moved from, until
\* it is assigned to again, no dispatch is submitted from it.
C18_MoveTransfers ==
    [][/\ last'.op \in {"MoveConstruct", "MoveAssignTo"} =>
             /\ StateOf(other') = StateOf(ThisObject)
             /\ other'.kernel_.compiled = kernel_.compiled
             /\ IsMovedFrom(ThisObject')
       /\ last'.op = "MoveAssignFrom" =>
             /\ StateOf(ThisObject') = StateOf(other)
             /\ kernel_'.compiled = other.kernel_.compiled
             /\ IsMovedFrom(other')
       /\ last'.op = "MoveAssignSelf" =>
             /\ StateOf(ThisObject') = StateOf(ThisObject)
             /\ other' = other
       /\ (IsMovedFrom(ThisObject) /\ last'.op # "MoveAssignFrom") =>
             /\ IsMovedFrom(ThisObject')
             /\ grid' = grid /\ pc' = pc
      ]_vars

\* the operator, compiled and with a complete argument list from a call,
\* went to the second object and came back by assignment: it is compiled
\* again, the second object is left without kernel and tensors
C18_Witness ==
    /\ last.op = "MoveAssignFrom"
    /\ kernel_.compiled /\ kernel_.handle = 1
    /\ calls >= 1 /\ Len(kernel_.args) >= 5
    /\ src_.buf = "src"
    /\ other.exists /\ IsMovedFrom(other)

=============================================================================
